---- MODULE Spec2Model ----
(***************************************************************************)
(* Tavari voice agent server (src/server.js): the call-session bridge      *)
(* between the Telnyx call leg and the OpenAI Realtime socket.             *)
(*                                                                         *)
(* Node runs every handler to completion on one thread, so one action is   *)
(* one handler from its entry to its return or to its first await.  The    *)
(* only await that suspends a handler on the network before it has done    *)
(* its work is `await answerCall` in handleCallInitiated: that handler is  *)
(* two actions, and the suspended handlers are the variable inFlight.      *)
(*                                                                         *)
(* Telnyx call webhooks always carry payload.call_control_id, so callId    *)
(* (server.js:165) and callControlId (server.js:207, 227) are the same     *)
(* identifier.                                                             *)
(*                                                                         *)
(* The ws library is version 8 (named ESM imports, server.js:8): send() on *)
(* a CONNECTING socket throws, send() on a CLOSING or CLOSED socket        *)
(* transmits nothing and does not throw, close() never throws.             *)
(***************************************************************************)
EXTENDS Integers, Sequences, FiniteSets

\* ------------------------------------------------------------------ bounds
MaxAiSockets == 2      \* AI sockets opened (call.initiated webhooks delivered)
MaxMediaSockets == 1   \* telephony media sockets that connect
MaxDeltas == 2         \* AI audio deltas that yield a frame for a session
MaxHangups == 2        \* hangup webhooks delivered per call.initiated of a call
MaxSamples == 6        \* complete PCM16 samples in a buffer handed to a resampler

CallIds == {"c1", "c2"}
SpecCalls == {"c1"}                   \* the calls whose events Spec delivers
NullCall == "null"                    \* JS null / undefined call identifier
NullWs == 0                           \* JS null socket reference
AiSockets == 1..MaxAiSockets          \* one `new WebSocket` per session created
MediaSockets == 1..MaxMediaSockets
ItemRoles == {"user", "assistant"}
DeltaLens == {4, 6}                   \* bytes of a decoded AI audio delta
FrameLens == {0, 1, 4}                \* bytes of an inbound telephony message
SampleVals == {-32768, -1, 2, 32767}  \* PCM16 sample values, the extremes included
TrailingBytes == {<<>>, <<127>>}      \* an odd last byte after the complete samples
WebhookKinds == {"unhandled_type", "no_payload"}  \* requests that reach no handler

VARIABLES
  sessions,    \* const sessions = new Map(): callId -> session record
  sessOrder,   \* insertion order of the keys of sessions
  inFlight,    \* handleCallInitiated invocations suspended on await answerCall
  aiState,     \* readyState of each AI socket ("unused" before new WebSocket)
  aiCall,      \* the callId each AI socket's callbacks close over
  tState,      \* readyState of each telephony media socket
  wsCallMap,   \* const wsCallMap = new Map(): media socket -> { callId }
  telnyxOut,   \* history: frames written to each live media socket, in order
  respOpen,    \* history: response.create sent on the socket, no response.done since
  hist,        \* history: per call, whether call.answered was handled, whether
               \* a start action was issued, how many hangups were handled
               \* since the last call.initiated arrived, and whether the media
               \* socket attached to its present session has closed
  nDelta,      \* history: audio frames passed to a session so far (numbers them
               \* in the order in which their deltas were handled)
  out,         \* history: what the last step sent or issued, in order
  res,         \* history: the HTTP response to the last webhook request
  pcmIn,       \* the Buffer handed to a resampler, as its bytes
  pcmOut,      \* what the resampler call returned: its bytes, or that it threw
  pcmOp,       \* which resampler calls have been made on pcmIn
  tick         \* history: flips when a handler run leaves everything else as
               \* it was, so that such a run is still a step

vars == <<sessions, sessOrder, inFlight, aiState, aiCall, tState, wsCallMap,
          telnyxOut, respOpen, hist, nDelta, out, res, tick,
          pcmIn, pcmOut, pcmOp>>

pcmVars == <<pcmIn, pcmOut, pcmOp>>

progVars == <<sessions, sessOrder, inFlight, aiState, aiCall, tState, wsCallMap>>

rest == <<sessions, sessOrder, inFlight, aiState, aiCall, tState, wsCallMap,
          telnyxOut, respOpen, hist, nDelta, out, res>>

\* ----------------------------------------------------------------- helpers
EmptyMap == [k \in {} |-> 0]

Has(c) == c \in DOMAIN sessions

RECURSIVE SumOver(_, _)
SumOver(f, S) ==
  IF S = {} THEN 0
  ELSE LET x == CHOOSE y \in S : TRUE IN f[x] + SumOver(f, S \ {x})

\* AI sockets already created, and handlers that will each create one
SocketsCommitted ==
  Cardinality({s \in AiSockets : aiState[s] # "unused"}) + SumOver(inFlight, CallIds)

Output(act, c, s, msg, frame) ==
  [act |-> act, call |-> c, sock |-> s, msg |-> msg, frame |-> frame]

Mark(c, field) == [hist EXCEPT ![c][field] = TRUE]

\* sessions.set(callId, value): a new key goes last, an existing key keeps its place
MapSet(c, value) ==
  [k \in DOMAIN sessions \cup {c} |-> IF k = c THEN value ELSE sessions[k]]

OrderSet(c) == IF Has(c) THEN sessOrder ELSE Append(sessOrder, c)

\* sessions.delete(callId)
MapDelete(c) == [k \in DOMAIN sessions \ {c} |-> sessions[k]]

OrderDelete(c) == SelectSeq(sessOrder, LAMBDA k : k # c)

\* the object literal stored by sessions.set
NewSession(s, cc) ==
  [openaiWs |-> s, callControlId |-> cc, sessionReady |-> FALSE,
   telnyxWs |-> NullWs, pendingMediaStart |-> FALSE,
   pendingCallControlId |-> NullCall, hasActiveResponse |-> FALSE,
   audioQueue |-> <<>>]

\* ws.send(...) on an AI socket: what reaches the provider
AiSend(s, c, msg) ==
  IF aiState[s] = "open" THEN <<Output("ai.send", c, s, msg, 0)>> ELSE <<>>

\* startMediaStream(callControlId): the streaming_start action with its URL
startMediaStream(cc) == <<Output("streaming_start", cc, NullWs, "call_id", 0)>>

\* every handler run is a step: a run that leaves everything else as it was
\* flips tick
Tock == tick' = IF rest' = rest THEN 1 - tick ELSE 0

\* --------------------------------------------------------------------- Init
\* the server after start-up: no session, no socket, no request; mediaSockets
\* are the telephony media sockets that will connect
ServerInitWith(mediaSockets) ==
  /\ sessions = EmptyMap
  /\ sessOrder = <<>>
  /\ inFlight = [c \in CallIds |-> 0]
  /\ aiState = [s \in AiSockets |-> "unused"]
  /\ aiCall = [s \in AiSockets |-> NullCall]
  /\ tState = [m \in mediaSockets |-> "unused"]
  /\ wsCallMap = EmptyMap
  /\ telnyxOut = [m \in mediaSockets |-> <<>>]
  /\ respOpen = [s \in AiSockets |-> FALSE]
  /\ hist = [c \in CallIds |->
              [answered |-> FALSE, started |-> FALSE, hangups |-> 0,
               detached |-> FALSE]]
  /\ nDelta = 0
  /\ out = <<>>
  /\ res = "idle"
  /\ tick = 0

ServerInit == ServerInitWith(MediaSockets)

Init ==
  /\ ServerInit
  /\ pcmIn = <<>>
  /\ pcmOut = [bytes |-> <<>>, threw |-> FALSE, unwritten |-> FALSE]
  /\ pcmOp = "none"

\* ----------------------------------------------------------- webhook events
\* app.post('/webhook') case 'call.initiated': handleCallInitiated up to
\* `await answerCall(callControlId)`; the answer action is issued
handleCallInitiated(c) ==
  /\ SocketsCommitted < MaxAiSockets
  /\ inFlight' = [inFlight EXCEPT ![c] = @ + 1]
  /\ hist' = [hist EXCEPT ![c].hangups = 0]
  /\ out' = <<Output("answer", c, NullWs, "", 0)>>
  /\ UNCHANGED <<sessions, sessOrder, aiState, aiCall, tState, wsCallMap,
                 telnyxOut, respOpen, nDelta>>
  /\ res' = "200"
  /\ UNCHANGED pcmVars
  /\ Tock

\* the answer action succeeded: handleCallInitiated resumes and runs
\* startOpenAIRealtimeSession(callId, callControlId) to its end
startOpenAIRealtimeSession(c) ==
  /\ inFlight[c] > 0
  /\ \E s \in AiSockets :
       /\ aiState[s] = "unused"
       /\ \A r \in AiSockets : r < s => aiState[r] # "unused"
       /\ aiState' = [aiState EXCEPT ![s] = "connecting"]
       /\ aiCall' = [aiCall EXCEPT ![s] = c]
       /\ sessions' = MapSet(c, NewSession(s, c))
       /\ sessOrder' = OrderSet(c)
       /\ inFlight' = [inFlight EXCEPT ![c] = @ - 1]
  /\ hist' = [hist EXCEPT ![c].detached = FALSE]
  /\ out' = <<>>
  /\ UNCHANGED <<tState, wsCallMap, telnyxOut, respOpen, nDelta>>
  /\ UNCHANGED res
  /\ UNCHANGED pcmVars
  /\ Tock

\* the answer action failed: answerCall rethrows, handleCallInitiated's catch
\* logs, and startOpenAIRealtimeSession is never reached
answerCallFailed(c) ==
  /\ inFlight[c] > 0
  /\ inFlight' = [inFlight EXCEPT ![c] = @ - 1]
  /\ out' = <<>>
  /\ UNCHANGED <<sessions, sessOrder, aiState, aiCall, tState, wsCallMap,
                 telnyxOut, respOpen, hist, nDelta>>
  /\ UNCHANGED res
  /\ UNCHANGED pcmVars
  /\ Tock

\* handleCallAnswered that starts the stream when it finds no session, as the
\* polling draft of the handler does after its wait
handleCallAnswered_StartsWithoutSession(c) ==
  /\ IF ~Has(c) \/ sessions[c].sessionReady
       THEN /\ out' = startMediaStream(c)
            /\ hist' = [hist EXCEPT ![c].answered = TRUE, ![c].started = TRUE]
            /\ UNCHANGED sessions
       ELSE /\ out' = <<>>
            /\ hist' = Mark(c, "answered")
            /\ sessions' = [sessions EXCEPT ![c].pendingMediaStart = TRUE,
                                            ![c].pendingCallControlId = c]
  /\ UNCHANGED <<sessOrder, inFlight, aiState, aiCall, tState, wsCallMap,
                 telnyxOut, respOpen, nDelta>>
  /\ res' = "200"
  /\ UNCHANGED pcmVars
  /\ Tock

\* handleCallAnswered without the immediate start: the start is always deferred
handleCallAnswered_AlwaysPending(c) ==
  /\ out' = <<>>
  /\ hist' = Mark(c, "answered")
  /\ sessions' =
       IF Has(c)
         THEN [sessions EXCEPT ![c].pendingMediaStart = TRUE,
                               ![c].pendingCallControlId = c]
         ELSE sessions
  /\ UNCHANGED <<sessOrder, inFlight, aiState, aiCall, tState, wsCallMap,
                 telnyxOut, respOpen, nDelta>>
  /\ res' = "200"
  /\ UNCHANGED pcmVars
  /\ Tock

\* app.post('/webhook') case 'call.answered'
handleCallAnswered(c) ==
  /\ IF Has(c) /\ sessions[c].sessionReady
       THEN /\ out' = startMediaStream(c)
            /\ hist' = [hist EXCEPT ![c].answered = TRUE, ![c].started = TRUE]
            /\ UNCHANGED sessions
       ELSE /\ out' = <<>>
            /\ hist' = Mark(c, "answered")
            /\ sessions' =
                 IF Has(c)
                   THEN [sessions EXCEPT ![c].pendingMediaStart = TRUE,
                                         ![c].pendingCallControlId = c]
                   ELSE sessions
  /\ UNCHANGED <<sessOrder, inFlight, aiState, aiCall, tState, wsCallMap,
                 telnyxOut, respOpen, nDelta>>
  /\ res' = "200"
  /\ UNCHANGED pcmVars
  /\ Tock

\* startMediaStreamFailed that issues the start action again
startMediaStreamFailed_Retries(c) ==
  /\ hist[c].started
  /\ out' = <<Output("log", c, NullWs, "streaming_start failed", 0)>>
               \o startMediaStream(c)
  /\ UNCHANGED <<sessions, sessOrder, inFlight, aiState, aiCall, tState,
                 wsCallMap, telnyxOut, respOpen, hist, nDelta>>
  /\ UNCHANGED res
  /\ UNCHANGED pcmVars
  /\ Tock

\* the streaming_start request of a start action issued for the call fails:
\* startMediaStream logs and rethrows, and the caller (the catch of
\* handleCallAnswered, or the .catch of the pending start) logs
startMediaStreamFailed(c) ==
  /\ hist[c].started
  /\ out' = <<Output("log", c, NullWs, "streaming_start failed", 0)>>
  /\ UNCHANGED <<sessions, sessOrder, inFlight, aiState, aiCall, tState,
                 wsCallMap, telnyxOut, respOpen, hist, nDelta>>
  /\ UNCHANGED res
  /\ UNCHANGED pcmVars
  /\ Tock

\* app.post('/webhook') case 'call.hangup' / 'call.bridged'
handleCallHangup(c) ==
  /\ hist[c].hangups < MaxHangups
  /\ hist' = [hist EXCEPT ![c].hangups = @ + 1]
  /\ IF Has(c)
       THEN LET s == sessions[c].openaiWs IN
            /\ aiState' = [aiState EXCEPT ![s] =
                             IF @ \in {"connecting", "open"} THEN "closing" ELSE @]
            /\ out' = <<Output("ai.close", c, s, "", 0)>>
            /\ sessions' = MapDelete(c)
            /\ sessOrder' = OrderDelete(c)
       ELSE /\ out' = <<>>
            /\ UNCHANGED <<sessions, sessOrder, aiState>>
  /\ UNCHANGED <<inFlight, aiCall, tState, wsCallMap, telnyxOut, respOpen, nDelta>>
  /\ res' = "200"
  /\ UNCHANGED pcmVars
  /\ Tock

\* app.post('/webhook') with a body that has no data member: req.body.data is
\* undefined, event.event_type throws before res.status(200).send('OK') is
\* reached, the catch logs, and no response is ever sent
webhookNoData ==
  /\ res' = "none"
  /\ out' = <<>>
  /\ UNCHANGED <<sessions, sessOrder, inFlight, aiState, aiCall, tState,
                 wsCallMap, telnyxOut, respOpen, hist, nDelta>>
  /\ UNCHANGED pcmVars
  /\ Tock

\* app.post('/webhook') with an event that reaches no handler code that
\* changes state: a type the switch does not handle (the media.stream events
\* and the default case log only), or a call event without payload (callId
\* is undefined, the handler throws in its own try or finds no session)
webhookNoEffect(kind) ==
  /\ kind \in WebhookKinds
  /\ res' = "200"
  /\ out' = <<>>
  /\ UNCHANGED <<sessions, sessOrder, inFlight, aiState, aiCall, tState,
                 wsCallMap, telnyxOut, respOpen, hist, nDelta>>
  /\ UNCHANGED pcmVars
  /\ Tock

\* ------------------------------------------------------------ the resamplers
\* byte length of resample24kHzTo8kHz(inputBuffer)
resample24kHzTo8kHzLen(len) == IF len < 2 THEN 0 ELSE ((len \div 2) \div 3) * 2

\* byte length of resample8kHzTo24kHz(inputBuffer)
resample8kHzTo24kHzLen(len) == IF len < 2 THEN 0 ELSE ((len \div 2) * 3) * 2

\* A Buffer is the sequence of its bytes (0..255); byte offset j of the code
\* is element j + 1.  A resampler call returns its output bytes, or throws
\* (a read outside the buffer is a RangeError), or returns a buffer from
\* Buffer.allocUnsafe with a sample it never wrote, whose bytes are arbitrary.
Returned(bytes) == [bytes |-> bytes, threw |-> FALSE, unwritten |-> FALSE]

\* buf.readInt16LE(offset) is defined when both bytes lie inside the buffer
CanRead(buf, offset) == offset >= 0 /\ offset + 2 <= Len(buf)

readInt16LE(buf, offset) ==
  LET u == buf[offset + 1] + 256 * buf[offset + 2]
  IN  IF u >= 32768 THEN u - 65536 ELSE u

\* the two bytes buf.writeInt16LE(value, ...) stores
writeInt16LE(value) ==
  LET u == IF value < 0 THEN value + 65536 ELSE value
  IN  <<u % 256, u \div 256>>

\* the buffer a resampler's loop leaves after passes 0 .. outputSamples - 1,
\* pass i having written its two bytes at offset i * 2; a pass that throws
\* ends the call
Filled(pass, outputSamples) ==
  IF \E i \in 0..(outputSamples - 1) : pass[i].threw
  THEN [bytes |-> <<>>, threw |-> TRUE, unwritten |-> FALSE]
  ELSE [bytes     |-> [j \in 1..(2 * outputSamples) |->
                         pass[(j - 1) \div 2].bytes[((j - 1) % 2) + 1]],
        threw     |-> FALSE,
        unwritten |-> \E i \in 0..(outputSamples - 1) : pass[i].unwritten]

\* "Use last sample": the sample at Math.max(0, floor((length - 2) / 2) * 2)
lastSample(inputBuffer) ==
  LET floorHalf == (Len(inputBuffer) - 2) \div 2
      lastSampleIndex == IF floorHalf * 2 > 0 THEN floorHalf * 2 ELSE 0
  IN  IF CanRead(inputBuffer, lastSampleIndex)
      THEN Returned(writeInt16LE(readInt16LE(inputBuffer, lastSampleIndex)))
      ELSE [bytes |-> <<>>, threw |-> TRUE, unwritten |-> FALSE]

\* mutant: a partial group of input samples yields an output sample too
outputSamples24kHzTo8kHz_RoundsUp(inputSamples) == (inputSamples + 2) \div 3

\* resample24kHzTo8kHz: outputSamples = Math.floor(inputSamples / 3)
outputSamples24kHzTo8kHz(inputSamples) == inputSamples \div 3

\* mutant: the middle sample of each group of three is taken
inputIndex24kHzTo8kHz_Middle(i) == i * 3 + 1

\* resample24kHzTo8kHz: inputIndex = i * 3
inputIndex24kHzTo8kHz(i) == i * 3

\* pass i of the loop of resample24kHzTo8kHz
pass24kHzTo8kHz(inputBuffer, i) ==
  LET inputSampleIndex == inputIndex24kHzTo8kHz(i) * 2
  IN  IF inputSampleIndex + 1 >= Len(inputBuffer)
      THEN lastSample(inputBuffer)
      ELSE Returned(writeInt16LE(readInt16LE(inputBuffer, inputSampleIndex)))

resample24kHzTo8kHz(inputBuffer) ==
  IF Len(inputBuffer) < 2 THEN Returned(<<>>)
  ELSE LET inputSamples == Len(inputBuffer) \div 2
           outputSamples == outputSamples24kHzTo8kHz(inputSamples)
       IN  Filled([i \in 0..(outputSamples - 1) |->
                     pass24kHzTo8kHz(inputBuffer, i)], outputSamples)

\* mutant: the last input sample is not held for a full period
outputSamples8kHzTo24kHz_NoHold(inputSamples) == inputSamples * 3 - 2

\* resample8kHzTo24kHz: outputSamples = inputSamples * 3
outputSamples8kHzTo24kHz(inputSamples) == inputSamples * 3

\* mutant: every output sample is the mean of its two neighbours, the
\* positions that fall on an input sample included
interpolated_Smoothed(sample1, sample2, third) ==
  (sample1 + sample2) \div 2

\* mutant: the interpolated value is truncated towards minus infinity
interpolated_Floor(sample1, sample2, third) ==
  (3 * sample1 + (sample2 - sample1) * third) \div 3

\* resample8kHzTo24kHz: Math.round(sample1 + (sample2 - sample1) * fraction),
\* clamped to the 16-bit range.  fraction is i / 3 - floor(i / 3), that is
\* third / 3 with third = i mod 3, up to the rounding of a double; the exact
\* value is a multiple of 1/3, so it never lies within that error of a half
\* and Math.round(x) = floor(x + 1/2) is floor((2 * 3x + 3) / 6).
interpolated(sample1, sample2, third) ==
  LET rounded == (2 * (3 * sample1 + (sample2 - sample1) * third) + 3) \div 6
  IN  IF rounded < -32768 THEN -32768
      ELSE IF rounded > 32767 THEN 32767 ELSE rounded

\* pass i of the loop of resample8kHzTo24kHz
pass8kHzTo24kHz(inputBuffer, i, inputSamples) ==
  LET inputIndex == i \div 3
      sample1Index == inputIndex * 2
      sample2Index == (inputIndex + 1) * 2
  IN  IF inputIndex >= inputSamples - 1
      THEN IF (inputSamples - 1) * 2 + 1 < Len(inputBuffer)
           THEN Returned(writeInt16LE(
                           readInt16LE(inputBuffer, (inputSamples - 1) * 2)))
           ELSE [bytes |-> <<0, 0>>, threw |-> FALSE, unwritten |-> TRUE]
      ELSE IF \/ sample1Index + 1 >= Len(inputBuffer)
              \/ sample2Index + 1 >= Len(inputBuffer)
           THEN lastSample(inputBuffer)
           ELSE Returned(writeInt16LE(
                  interpolated(readInt16LE(inputBuffer, sample1Index),
                               readInt16LE(inputBuffer, sample2Index),
                               i % 3)))

resample8kHzTo24kHz(inputBuffer) ==
  IF Len(inputBuffer) < 2 THEN Returned(<<>>)
  ELSE LET inputSamples == Len(inputBuffer) \div 2
           outputSamples == outputSamples8kHzTo24kHz(inputSamples)
       IN  Filled([i \in 0..(outputSamples - 1) |->
                     pass8kHzTo24kHz(inputBuffer, i, inputSamples)],
                  outputSamples)

\* a call of resample24kHzTo8kHz on the buffer pcmIn
callResample24kHzTo8kHz ==
  /\ pcmOp = "none"
  /\ pcmOut' = resample24kHzTo8kHz(pcmIn)
  /\ pcmOp' = "24to8"
  /\ UNCHANGED <<pcmIn, rest, tick>>

\* a call of resample8kHzTo24kHz on the buffer pcmIn
callResample8kHzTo24kHz ==
  /\ pcmOp = "none"
  /\ pcmOut' = resample8kHzTo24kHz(pcmIn)
  /\ pcmOp' = "8to24"
  /\ UNCHANGED <<pcmIn, rest, tick>>

\* resample24kHzTo8kHz called on what resample8kHzTo24kHz(pcmIn) returned
callResampleBack ==
  /\ pcmOp = "8to24"
  /\ ~pcmOut.threw
  /\ pcmOut' = resample24kHzTo8kHz(pcmOut.bytes)
  /\ pcmOp' = "8to24to8"
  /\ UNCHANGED <<pcmIn, rest, tick>>

\* ------------------------------------------------------- AI socket callbacks
AiReceives(s) == aiState[s] \in {"open", "closing"}

\* ws.on('open'): the session.update configuration is sent
aiOnOpen(s) ==
  /\ aiState[s] = "connecting"
  /\ aiState' = [aiState EXCEPT ![s] = "open"]
  /\ out' = <<Output("ai.send", aiCall[s], s, "session.update", 0)>>
  /\ UNCHANGED <<sessions, sessOrder, inFlight, aiCall, tState, wsCallMap,
                 telnyxOut, respOpen, hist, nDelta>>
  /\ UNCHANGED res
  /\ UNCHANGED pcmVars
  /\ Tock

\* aiOnSessionUpdated without lines 445-446: the pending start is issued but
\* stays recorded
aiOnSessionUpdated_KeepsPending(s) ==
  LET c == aiCall[s] IN
  /\ AiReceives(s)
  /\ IF Has(c)
       THEN LET session == sessions[c]
                pending == session.pendingMediaStart
                             /\ session.pendingCallControlId # NullCall
            IN
            /\ sessions' =
                 [sessions EXCEPT
                    ![c].sessionReady = TRUE,
                    ![c].pendingMediaStart = @,
                    ![c].pendingCallControlId = @]
            /\ out' = AiSend(s, c, "conversation.item.create")
                        \o (IF pending
                              THEN startMediaStream(session.pendingCallControlId)
                              ELSE <<>>)
            /\ hist' = [hist EXCEPT ![c].started = @ \/ pending]
       ELSE /\ out' = <<>>
            /\ UNCHANGED <<sessions, hist>>
  /\ UNCHANGED <<sessOrder, inFlight, aiState, aiCall, tState, wsCallMap,
                 telnyxOut, respOpen, nDelta>>
  /\ UNCHANGED res
  /\ UNCHANGED pcmVars
  /\ Tock

\* aiOnSessionUpdated that clears pendingCallControlId before it starts the
\* stream: the start action and its URL carry null
aiOnSessionUpdated_StartAfterClear(s) ==
  LET c == aiCall[s] IN
  /\ AiReceives(s)
  /\ IF Has(c)
       THEN LET session == sessions[c]
                pending == session.pendingMediaStart
                             /\ session.pendingCallControlId # NullCall
            IN
            /\ sessions' =
                 [sessions EXCEPT
                    ![c].sessionReady = TRUE,
                    ![c].pendingMediaStart = IF pending THEN FALSE ELSE @,
                    ![c].pendingCallControlId = IF pending THEN NullCall ELSE @]
            /\ out' = AiSend(s, c, "conversation.item.create")
                        \o (IF pending THEN startMediaStream(NullCall) ELSE <<>>)
            /\ hist' = [hist EXCEPT ![c].started = @ \/ pending]
       ELSE /\ out' = <<>>
            /\ UNCHANGED <<sessions, hist>>
  /\ UNCHANGED <<sessOrder, inFlight, aiState, aiCall, tState, wsCallMap,
                 telnyxOut, respOpen, nDelta>>
  /\ UNCHANGED res
  /\ UNCHANGED pcmVars
  /\ Tock

\* aiOnSessionUpdated without lines 438-446: the pending start is never consumed
aiOnSessionUpdated_NoPendingStart(s) ==
  LET c == aiCall[s] IN
  /\ AiReceives(s)
  /\ IF Has(c)
       THEN /\ sessions' = [sessions EXCEPT ![c].sessionReady = TRUE]
            /\ out' = AiSend(s, c, "conversation.item.create")
       ELSE /\ out' = <<>>
            /\ UNCHANGED sessions
  /\ UNCHANGED <<sessOrder, inFlight, aiState, aiCall, tState, wsCallMap,
                 telnyxOut, respOpen, hist, nDelta>>
  /\ UNCHANGED res
  /\ UNCHANGED pcmVars
  /\ Tock

\* ws.on('message') case 'session.updated'
aiOnSessionUpdated(s) ==
  LET c == aiCall[s] IN
  /\ AiReceives(s)
  /\ IF Has(c)
       THEN LET session == sessions[c]
                pending == session.pendingMediaStart
                             /\ session.pendingCallControlId # NullCall
            IN
            /\ sessions' =
                 [sessions EXCEPT
                    ![c].sessionReady = TRUE,
                    ![c].pendingMediaStart = IF pending THEN FALSE ELSE @,
                    ![c].pendingCallControlId = IF pending THEN NullCall ELSE @]
            /\ out' = AiSend(s, c, "conversation.item.create")
                        \o (IF pending
                              THEN startMediaStream(session.pendingCallControlId)
                              ELSE <<>>)
            /\ hist' = [hist EXCEPT ![c].started = @ \/ pending]
       ELSE /\ out' = <<>>
            /\ UNCHANGED <<sessions, hist>>
  /\ UNCHANGED <<sessOrder, inFlight, aiState, aiCall, tState, wsCallMap,
                 telnyxOut, respOpen, nDelta>>
  /\ UNCHANGED res
  /\ UNCHANGED pcmVars
  /\ Tock

\* aiOnConversationItemCreated without the !hasActiveResponse test of line 458
aiOnConversationItemCreated_NoGuard(s, role) ==
  LET c == aiCall[s] IN
  /\ AiReceives(s)
  /\ IF /\ Has(c)
        /\ sessions[c].openaiWs # NullWs
        /\ role = "user"
        /\ aiState[sessions[c].openaiWs] # "connecting"
       THEN LET t == sessions[c].openaiWs IN
            /\ out' = AiSend(t, c, "response.create")
            /\ sessions' = [sessions EXCEPT ![c].hasActiveResponse = TRUE]
            /\ respOpen' = [respOpen EXCEPT ![t] = @ \/ aiState[t] = "open"]
       ELSE /\ out' = <<>>
            /\ UNCHANGED <<sessions, respOpen>>
  /\ UNCHANGED <<sessOrder, inFlight, aiState, aiCall, tState, wsCallMap,
                 telnyxOut, hist, nDelta>>
  /\ UNCHANGED res
  /\ UNCHANGED pcmVars
  /\ Tock

\* ws.on('message') case 'conversation.item.created'
aiOnConversationItemCreated(s, role) ==
  LET c == aiCall[s] IN
  /\ AiReceives(s)
  /\ IF /\ Has(c)
        /\ sessions[c].openaiWs # NullWs
        /\ role = "user"
        /\ ~sessions[c].hasActiveResponse
        /\ aiState[sessions[c].openaiWs] # "connecting"
       THEN LET t == sessions[c].openaiWs IN
            /\ out' = AiSend(t, c, "response.create")
            /\ sessions' = [sessions EXCEPT ![c].hasActiveResponse = TRUE]
            /\ respOpen' = [respOpen EXCEPT ![t] = @ \/ aiState[t] = "open"]
       ELSE \* nothing to request, or send() threw on a CONNECTING socket
            /\ out' = <<>>
            /\ UNCHANGED <<sessions, respOpen>>
  /\ UNCHANGED <<sessOrder, inFlight, aiState, aiCall, tState, wsCallMap,
                 telnyxOut, hist, nDelta>>
  /\ UNCHANGED res
  /\ UNCHANGED pcmVars
  /\ Tock

\* sendAudioToTelnyx(callId, audioBuffer), audioBuffer.length > 0:
\* <<session', frames written to session.telnyxWs>>
sendAudioToTelnyx(session, frame) ==
  IF session.telnyxWs # NullWs /\ tState[session.telnyxWs] = "open"
    THEN <<[session EXCEPT !.audioQueue = <<>>], <<frame>> \o session.audioQueue>>
    ELSE <<[session EXCEPT !.audioQueue = Append(@, frame)], <<>>>>

Written(m, c, frames) ==
  [i \in 1..Len(frames) |-> Output("telnyx.send", c, m, "media", frames[i].id)]

\* aiOnAudioDelta that plays the audio on the first registered session rather
\* than on the session of the socket's own call
aiOnAudioDelta_FirstSession(s, len) ==
  LET c == IF sessOrder = <<>> THEN aiCall[s] ELSE sessOrder[1]
      frame == [id |-> nDelta + 1, len |-> resample24kHzTo8kHzLen(len)]
  IN
  /\ AiReceives(s)
  /\ nDelta < MaxDeltas
  /\ IF frame.len > 0 /\ Has(c)
       THEN LET r == sendAudioToTelnyx(sessions[c], frame)
                m == sessions[c].telnyxWs
            IN
            /\ nDelta' = nDelta + 1
            /\ sessions' = [sessions EXCEPT ![c] = r[1]]
            /\ out' = Written(m, c, r[2])
            /\ telnyxOut' =
                 IF r[2] = <<>> THEN telnyxOut
                 ELSE [telnyxOut EXCEPT ![m] = @ \o r[2]]
       ELSE /\ out' = <<>>
            /\ UNCHANGED <<sessions, telnyxOut, nDelta>>
  /\ UNCHANGED <<sessOrder, inFlight, aiState, aiCall, tState, wsCallMap,
                 respOpen, hist>>
  /\ UNCHANGED res
  /\ UNCHANGED pcmVars
  /\ Tock

\* ws.on('message') case 'response.audio.delta' / 'response.output_audio.delta'
aiOnAudioDelta(s, len) ==
  LET c == aiCall[s]
      frame == [id |-> nDelta + 1, len |-> resample24kHzTo8kHzLen(len)]
  IN
  /\ AiReceives(s)
  /\ nDelta < MaxDeltas
  /\ IF frame.len > 0 /\ Has(c)
       THEN LET r == sendAudioToTelnyx(sessions[c], frame)
                m == sessions[c].telnyxWs
            IN
            /\ nDelta' = nDelta + 1
            /\ sessions' = [sessions EXCEPT ![c] = r[1]]
            /\ out' = Written(m, c, r[2])
            /\ telnyxOut' =
                 IF r[2] = <<>> THEN telnyxOut
                 ELSE [telnyxOut EXCEPT ![m] = @ \o r[2]]
       ELSE /\ out' = <<>>
            /\ UNCHANGED <<sessions, telnyxOut, nDelta>>
  /\ UNCHANGED <<sessOrder, inFlight, aiState, aiCall, tState, wsCallMap,
                 respOpen, hist>>
  /\ UNCHANGED res
  /\ UNCHANGED pcmVars
  /\ Tock

\* ws.on('message') case 'response.done'
aiOnResponseDone(s) ==
  LET c == aiCall[s] IN
  /\ AiReceives(s)
  /\ out' = <<>>
  /\ IF Has(c)
       THEN /\ sessions' = [sessions EXCEPT ![c].hasActiveResponse = FALSE]
            /\ respOpen' = [respOpen EXCEPT ![sessions[c].openaiWs] = FALSE]
       ELSE UNCHANGED <<sessions, respOpen>>
  /\ UNCHANGED <<sessOrder, inFlight, aiState, aiCall, tState, wsCallMap,
                 telnyxOut, hist, nDelta>>
  /\ UNCHANGED res
  /\ UNCHANGED pcmVars
  /\ Tock

\* aiOnError that treats the error as fatal: the socket is closed and the
\* session removed
aiOnError_Fatal(s) ==
  LET c == aiCall[s] IN
  /\ aiState[s] \in {"connecting", "open", "closing"}
  /\ aiState' = [aiState EXCEPT ![s] = "closing"]
  /\ out' = <<Output("ai.close", c, s, "", 0)>>
  /\ IF Has(c)
       THEN /\ sessions' = MapDelete(c)
            /\ sessOrder' = OrderDelete(c)
       ELSE UNCHANGED <<sessions, sessOrder>>
  /\ UNCHANGED <<inFlight, aiCall, tState, wsCallMap, telnyxOut, respOpen,
                 hist, nDelta>>
  /\ UNCHANGED res
  /\ UNCHANGED pcmVars
  /\ Tock

\* ws.on('message') case 'error', and ws.on('error'): logged only
aiOnError(s) ==
  /\ aiState[s] \in {"connecting", "open", "closing"}
  /\ out' = <<>>
  /\ UNCHANGED <<sessions, sessOrder, inFlight, aiState, aiCall, tState,
                 wsCallMap, telnyxOut, respOpen, hist, nDelta>>
  /\ UNCHANGED res
  /\ UNCHANGED pcmVars
  /\ Tock

\* aiOnClose without the session.openaiWs === ws test of line 577
aiOnClose_NoIdentityCheck(s) ==
  LET c == aiCall[s] IN
  /\ aiState[s] \in {"connecting", "open", "closing"}
  /\ aiState' = [aiState EXCEPT ![s] = "closed"]
  /\ out' = <<>>
  /\ IF Has(c)
       THEN /\ sessions' = MapDelete(c)
            /\ sessOrder' = OrderDelete(c)
       ELSE UNCHANGED <<sessions, sessOrder>>
  /\ UNCHANGED <<inFlight, aiCall, tState, wsCallMap, telnyxOut, respOpen,
                 hist, nDelta>>
  /\ UNCHANGED res
  /\ UNCHANGED pcmVars
  /\ Tock

\* ws.on('close') of the AI socket
aiOnClose(s) ==
  LET c == aiCall[s] IN
  /\ aiState[s] \in {"connecting", "open", "closing"}
  /\ aiState' = [aiState EXCEPT ![s] = "closed"]
  /\ out' = <<>>
  /\ IF Has(c) /\ sessions[c].openaiWs = s
       THEN /\ sessions' = MapDelete(c)
            /\ sessOrder' = OrderDelete(c)
       ELSE UNCHANGED <<sessions, sessOrder>>
  /\ UNCHANGED <<inFlight, aiCall, tState, wsCallMap, telnyxOut, respOpen,
                 hist, nDelta>>
  /\ UNCHANGED res
  /\ UNCHANGED pcmVars
  /\ Tock

\* ------------------------------------------- telephony media socket callbacks
\* wss.on('connection'): call_id is read from the URL and kept in wsCallMap
wssOnConnection(m, urlCall) ==
  /\ tState[m] = "unused"
  /\ \A r \in MediaSockets : r < m => tState[r] # "unused"
  /\ tState' = [tState EXCEPT ![m] = "open"]
  /\ wsCallMap' = [k \in DOMAIN wsCallMap \cup {m} |->
                     IF k = m THEN [callId |-> urlCall] ELSE wsCallMap[k]]
  /\ out' = <<>>
  /\ UNCHANGED <<sessions, sessOrder, inFlight, aiState, aiCall, telnyxOut,
                 respOpen, hist, nDelta>>
  /\ UNCHANGED res
  /\ UNCHANGED pcmVars
  /\ Tock

\* mutant: the most recently inserted session without a media socket is taken
FirstWithoutTelnyxWs_MostRecent ==
  LET idx == {i \in 1..Len(sessOrder) : sessions[sessOrder[i]].telnyxWs = NullWs}
  IN IF idx = {} THEN NullCall
     ELSE sessOrder[CHOOSE i \in idx : \A j \in idx : i >= j]

\* for (const [id, session] of sessions.entries()) if (!session.telnyxWs) ... break
FirstWithoutTelnyxWs ==
  LET idx == {i \in 1..Len(sessOrder) : sessions[sessOrder[i]].telnyxWs = NullWs}
  IN IF idx = {} THEN NullCall
     ELSE sessOrder[CHOOSE i \in idx : \A j \in idx : i <= j]

\* lines 722-759 of ws.on('message'): <<activeCallId, sessions', frames flushed>>
bindTelnyxWs(m) ==
  LET known == wsCallMap[m].callId IN
  IF known = NullCall
    THEN LET id == FirstWithoutTelnyxWs IN
         IF id = NullCall THEN <<NullCall, sessions, <<>>>>
         ELSE <<id, [sessions EXCEPT ![id].telnyxWs = m], <<>>>>
    ELSE IF Has(known) /\ sessions[known].telnyxWs = NullWs
           THEN <<known,
                  [sessions EXCEPT ![known].telnyxWs = m,
                                   ![known].audioQueue = <<>>],
                  sessions[known].audioQueue>>
           ELSE <<known, sessions, <<>>>>

\* telnyxOnMessage without wsInfo.callId = id of line 732: the fallback match is
\* not remembered
telnyxOnMessage_CallIdNotKept(m, len) ==
  /\ tState[m] = "open"
  /\ IF len = 0
       THEN /\ out' = <<>>
            /\ UNCHANGED <<sessions, telnyxOut>>
       ELSE LET b == bindTelnyxWs(m)
                activeCallId == b[1]
                forward ==
                  /\ activeCallId # NullCall
                  /\ activeCallId \in DOMAIN b[2]
                  /\ b[2][activeCallId].openaiWs # NullWs
                  /\ b[2][activeCallId].sessionReady
                  /\ resample8kHzTo24kHzLen(len) # 0
            IN
            /\ sessions' = b[2]
            /\ telnyxOut' = [telnyxOut EXCEPT ![m] = @ \o b[3]]
            /\ out' = Written(m, activeCallId, b[3])
                        \o (IF forward
                              THEN AiSend(b[2][activeCallId].openaiWs, activeCallId,
                                          "input_audio_buffer.append")
                              ELSE <<>>)
  /\ UNCHANGED <<sessOrder, inFlight, aiState, aiCall, tState, wsCallMap, respOpen,
                 hist, nDelta>>
  /\ UNCHANGED res
  /\ UNCHANGED pcmVars
  /\ Tock

\* telnyxOnMessage without the sessionReady test of line 773
telnyxOnMessage_NoReadyCheck(m, len) ==
  /\ tState[m] = "open"
  /\ IF len = 0
       THEN /\ out' = <<>>
            /\ UNCHANGED <<sessions, wsCallMap, telnyxOut>>
       ELSE LET b == bindTelnyxWs(m)
                activeCallId == b[1]
                forward ==
                  /\ activeCallId # NullCall
                  /\ activeCallId \in DOMAIN b[2]
                  /\ b[2][activeCallId].openaiWs # NullWs
                  /\ resample8kHzTo24kHzLen(len) # 0
            IN
            /\ sessions' = b[2]
            /\ wsCallMap' = [wsCallMap EXCEPT ![m].callId = activeCallId]
            /\ telnyxOut' = [telnyxOut EXCEPT ![m] = @ \o b[3]]
            /\ out' = Written(m, activeCallId, b[3])
                        \o (IF forward
                              THEN AiSend(b[2][activeCallId].openaiWs, activeCallId,
                                          "input_audio_buffer.append")
                              ELSE <<>>)
  /\ UNCHANGED <<sessOrder, inFlight, aiState, aiCall, tState, respOpen,
                 hist, nDelta>>
  /\ UNCHANGED res
  /\ UNCHANGED pcmVars
  /\ Tock

\* ws.on('message') of a media socket, data a Buffer of len bytes
telnyxOnMessage(m, len) ==
  /\ tState[m] = "open"
  /\ IF len = 0
       THEN /\ out' = <<>>
            /\ UNCHANGED <<sessions, wsCallMap, telnyxOut>>
       ELSE LET b == bindTelnyxWs(m)
                activeCallId == b[1]
                forward ==
                  /\ activeCallId # NullCall
                  /\ activeCallId \in DOMAIN b[2]
                  /\ b[2][activeCallId].openaiWs # NullWs
                  /\ b[2][activeCallId].sessionReady
                  /\ resample8kHzTo24kHzLen(len) # 0
            IN
            /\ sessions' = b[2]
            /\ wsCallMap' = [wsCallMap EXCEPT ![m].callId = activeCallId]
            /\ telnyxOut' = [telnyxOut EXCEPT ![m] = @ \o b[3]]
            /\ out' = Written(m, activeCallId, b[3])
                        \o (IF forward
                              THEN AiSend(b[2][activeCallId].openaiWs, activeCallId,
                                          "input_audio_buffer.append")
                              ELSE <<>>)
  /\ UNCHANGED <<sessOrder, inFlight, aiState, aiCall, tState, respOpen,
                 hist, nDelta>>
  /\ UNCHANGED res
  /\ UNCHANGED pcmVars
  /\ Tock

\* the peer's close frame arrived: readyState is CLOSING until 'close' fires
telnyxClosing(m) ==
  /\ tState[m] = "open"
  /\ tState' = [tState EXCEPT ![m] = "closing"]
  /\ out' = <<>>
  /\ UNCHANGED <<sessions, sessOrder, inFlight, aiState, aiCall, wsCallMap,
                 telnyxOut, respOpen, hist, nDelta>>
  /\ UNCHANGED res
  /\ UNCHANGED pcmVars
  /\ Tock

\* telnyxOnClose that also removes the session, as an implicit hangup would
telnyxOnClose_RemovesSession(m) ==
  LET callId == wsCallMap[m].callId IN
  /\ tState[m] \in {"open", "closing"}
  /\ tState' = [tState EXCEPT ![m] = "closed"]
  /\ sessions' = IF callId # NullCall /\ Has(callId)
                   THEN MapDelete(callId)
                   ELSE sessions
  /\ sessOrder' = IF callId # NullCall /\ Has(callId)
                    THEN OrderDelete(callId)
                    ELSE sessOrder
  /\ wsCallMap' = [k \in DOMAIN wsCallMap \ {m} |-> wsCallMap[k]]
  /\ out' = <<>>
  /\ UNCHANGED <<inFlight, aiState, aiCall, telnyxOut, respOpen, hist, nDelta>>
  /\ UNCHANGED res
  /\ UNCHANGED pcmVars
  /\ Tock

\* ws.on('close') of a media socket
telnyxOnClose(m) ==
  LET callId == wsCallMap[m].callId IN
  /\ tState[m] \in {"open", "closing"}
  /\ tState' = [tState EXCEPT ![m] = "closed"]
  /\ sessions' = IF callId # NullCall /\ Has(callId)
                   THEN [sessions EXCEPT ![callId].telnyxWs = NullWs]
                   ELSE sessions
  /\ wsCallMap' = [k \in DOMAIN wsCallMap \ {m} |-> wsCallMap[k]]
  /\ hist' = IF callId # NullCall /\ Has(callId) /\ sessions[callId].telnyxWs = m
               THEN Mark(callId, "detached")
               ELSE hist
  /\ out' = <<>>
  /\ UNCHANGED <<sessOrder, inFlight, aiState, aiCall, telnyxOut, respOpen,
                 nDelta>>
  /\ UNCHANGED res
  /\ UNCHANGED pcmVars
  /\ Tock

\* ------------------------------------------------------------ specification
\* the webhook handlers and the AI socket callbacks that carry no audio: none
\* of them reads or writes telnyxWs, audioQueue, wsCallMap or a media socket
ControlNext ==
  \/ \E c \in SpecCalls : handleCallInitiated(c)
  \/ \E c \in SpecCalls : startOpenAIRealtimeSession(c)
  \/ \E c \in SpecCalls : answerCallFailed(c)
  \/ \E c \in SpecCalls : handleCallAnswered(c)
  \/ \E c \in SpecCalls : handleCallHangup(c)
  \/ \E s \in AiSockets : aiOnOpen(s)
  \/ \E s \in AiSockets : aiOnSessionUpdated(s)
  \/ \E s \in AiSockets, role \in ItemRoles : aiOnConversationItemCreated(s, role)
  \/ \E s \in AiSockets : aiOnResponseDone(s)
  \/ \E s \in AiSockets : aiOnError(s)
  \/ \E s \in AiSockets : aiOnClose(s)

\* the audio path: AI audio deltas and the telephony media sockets
MediaNext ==
  \/ \E s \in AiSockets, len \in DeltaLens : aiOnAudioDelta(s, len)
  \/ \E m \in MediaSockets, c \in SpecCalls \cup {NullCall} : wssOnConnection(m, c)
  \/ \E m \in MediaSockets, len \in FrameLens : telnyxOnMessage(m, len)
  \/ \E m \in MediaSockets : telnyxClosing(m)
  \/ \E m \in MediaSockets : telnyxOnClose(m)

Next == ControlNext \/ MediaNext

\* every handler of a call event and of the two kinds of socket, in every
\* interleaving
Spec == Init /\ [][Next]_vars

\* the control handlers alone
ControlSpec == Init /\ [][ControlNext]_vars

\* every handler, for a call whose call.initiated webhook is delivered once:
\* no second session is ever created
SingleNext ==
  \/ \E c \in SpecCalls : handleCallInitiated(c) /\ SocketsCommitted = 0
  \/ \E c \in SpecCalls : startOpenAIRealtimeSession(c)
  \/ \E c \in SpecCalls : answerCallFailed(c)
  \/ \E c \in SpecCalls : handleCallAnswered(c)
  \/ \E c \in SpecCalls : handleCallHangup(c)
  \/ \E s \in AiSockets : aiOnOpen(s)
  \/ \E s \in AiSockets : aiOnSessionUpdated(s)
  \/ \E s \in AiSockets, role \in ItemRoles : aiOnConversationItemCreated(s, role)
  \/ \E s \in AiSockets : aiOnResponseDone(s)
  \/ \E s \in AiSockets : aiOnError(s)
  \/ \E s \in AiSockets : aiOnClose(s)
  \/ MediaNext

SingleSpec == Init /\ [][SingleNext]_vars

\* two calls at once: the handlers that create and remove registry entries
\* and those that bind media sockets to them
BindNext ==
  \/ \E c \in CallIds : handleCallInitiated(c)
  \/ \E c \in CallIds : startOpenAIRealtimeSession(c)
  \/ \E c \in CallIds : handleCallHangup(c)
  \/ \E s \in AiSockets : aiOnClose(s)
  \/ \E m \in MediaSockets, c \in CallIds \cup {NullCall} : wssOnConnection(m, c)
  \/ \E m \in MediaSockets, len \in FrameLens : telnyxOnMessage(m, len)
  \/ \E m \in MediaSockets : telnyxOnClose(m)

BindSpec == Init /\ [][BindNext]_vars

\* the webhook route alone: the call events of ControlNext and the requests
\* that reach no handler
WebhookNext ==
  \/ ControlNext
  \/ webhookNoData
  \/ \E kind \in WebhookKinds : webhookNoEffect(kind)

WebhookSpec == Init /\ [][WebhookNext]_vars

\* two calls, the call.initiated webhook of each delivered once, and every
\* handler that looks a session up by its call identifier; the second call
\* is a bystander that is neither answered nor hung up, and the audio deltas
\* delivered are those of sockets whose call has no entry
AbsentNext ==
  \/ \E c \in CallIds :
       /\ handleCallInitiated(c)
       /\ inFlight[c] = 0 /\ \A s \in AiSockets : aiCall[s] # c
  \/ \E c \in CallIds : startOpenAIRealtimeSession(c)
  \/ \E c \in SpecCalls : handleCallAnswered(c)
  \/ \E c \in SpecCalls : handleCallHangup(c)
  \/ \E s \in AiSockets : aiOnOpen(s)
  \/ \E s \in AiSockets : aiOnSessionUpdated(s)
  \/ \E s \in AiSockets : aiOnResponseDone(s)
  \/ \E s \in AiSockets : aiOnClose(s)
  \/ \E s \in AiSockets, len \in DeltaLens :
       aiOnAudioDelta(s, len) /\ ~Has(aiCall[s])
  \/ \E m \in MediaSockets, c \in CallIds : wssOnConnection(m, c)
  \/ \E m \in MediaSockets, len \in FrameLens : telnyxOnMessage(m, len)
  \/ \E m \in MediaSockets : telnyxOnClose(m)

AbsentSpec == Init /\ [][AbsentNext]_vars

\* the control handlers, and the failure of the stream-start requests they
\* issue
StartFailNext ==
  \/ ControlNext
  \/ \E c \in SpecCalls : startMediaStreamFailed(c)

StartFailSpec == Init /\ [][StartFailNext]_vars

\* two calls at once under distinct identifiers, the call.initiated webhook
\* of each delivered once, with the audio of both directions: media sockets
\* connect with the call_id of either call or with none
CrossNext ==
  \/ \E c \in CallIds :
       /\ handleCallInitiated(c)
       /\ inFlight[c] = 0 /\ \A s \in AiSockets : aiCall[s] # c
  \/ \E c \in CallIds : startOpenAIRealtimeSession(c)
  \/ \E c \in SpecCalls : handleCallAnswered(c)
  \/ \E s \in AiSockets : aiOnOpen(s)
  \/ \E s \in AiSockets : aiOnSessionUpdated(s)
  \/ \E s \in AiSockets, len \in DeltaLens : aiOnAudioDelta(s, len)
  \/ \E m \in MediaSockets, c \in CallIds \cup {NullCall} : wssOnConnection(m, c)
  \/ \E m \in MediaSockets, len \in FrameLens : telnyxOnMessage(m, len)
  \/ \E m \in MediaSockets : telnyxOnClose(m)

CrossSpec == Init /\ [][CrossNext]_vars

\* one call, its call.initiated delivered once, and one media socket more than
\* MediaSockets: a call's media socket and another one that connects with the
\* same call_id or with none
TwinSockets == 1..(MaxMediaSockets + 1)

TwinInit ==
  /\ ServerInitWith(TwinSockets)
  /\ pcmIn = <<>>
  /\ pcmOut = [bytes |-> <<>>, threw |-> FALSE, unwritten |-> FALSE]
  /\ pcmOp = "none"

TwinNext ==
  \/ \E c \in SpecCalls : handleCallInitiated(c) /\ SocketsCommitted = 0
  \/ \E c \in SpecCalls : startOpenAIRealtimeSession(c)
  \/ \E s \in AiSockets : aiOnOpen(s)
  \/ \E s \in AiSockets : aiOnSessionUpdated(s)
  \/ \E m \in TwinSockets, c \in SpecCalls \cup {NullCall} : wssOnConnection(m, c)
  \/ \E m \in TwinSockets, len \in FrameLens : telnyxOnMessage(m, len)
  \/ \E m \in TwinSockets : telnyxOnClose(m)

TwinSpec == TwinInit /\ [][TwinNext]_vars

\* the resamplers applied to every buffer of at most MaxSamples samples, with
\* and without an odd last byte, and to one frame of each peer
pcm16(samples) ==
  [j \in 1..(2 * Len(samples)) |->
     writeInt16LE(samples[(j + 1) \div 2])[((j - 1) % 2) + 1]]

Buffers ==
  {pcm16(samples) \o odd :
     samples \in UNION {[1..n -> SampleVals] : n \in 0..MaxSamples},
     odd \in TrailingBytes}

\* the frames of 20 ms the two peers exchange: 160 bytes of 8 kHz audio from
\* the telephony side, 480 bytes of 24 kHz audio from the AI side; sample k
\* of a frame has the value k
FrameBytes == {160, 480}
Frames == {pcm16([k \in 1..(len \div 2) |-> k]) : len \in FrameBytes}

ResampleInit ==
  /\ ServerInit
  /\ pcmIn \in Buffers \cup Frames
  /\ pcmOut = [bytes |-> <<>>, threw |-> FALSE, unwritten |-> FALSE]
  /\ pcmOp = "none"

ResampleNext ==
  \/ callResample24kHzTo8kHz
  \/ callResample8kHzTo24kHz
  \/ callResampleBack

ResampleSpec == ResampleInit /\ [][ResampleNext]_vars

\* the telephony provider streams audio: a connected media socket keeps
\* delivering non-empty frames.  Nothing obliges the AI provider to send more.
FairSpec ==
  Spec /\ \A m \in MediaSockets :
            WF_vars(\E len \in FrameLens \ {0} : telnyxOnMessage(m, len))

\* FairSpec, and every network operation the server started comes to an end:
\* the awaited answer request resolves or fails, a connecting AI socket opens
\* or closes, a closing AI socket closes.  No timer is scheduled anywhere in
\* server.js, so no other step is ever owed.
LiveSpec ==
  /\ FairSpec
  /\ \A c \in CallIds :
       WF_vars(startOpenAIRealtimeSession(c) \/ answerCallFailed(c))
  /\ \A s \in AiSockets :
       WF_vars(aiOnOpen(s) \/ (aiState[s] \in {"connecting", "closing"} /\ aiOnClose(s)))

\* --------------------------------------------------------------- properties
Starts(o) == Cardinality({i \in DOMAIN o : o[i].act = "streaming_start"})

StartsFor(o, c) ==
  Cardinality({i \in DOMAIN o : o[i].act = "streaming_start" /\ o[i].call = c})

SentOn(o, s, msg) ==
  Cardinality({i \in DOMAIN o :
                 o[i].act = "ai.send" /\ o[i].sock = s /\ o[i].msg = msg})

TypeOK ==
  /\ DOMAIN sessions \subseteq CallIds
  /\ \A c \in DOMAIN sessions :
       /\ sessions[c].openaiWs \in AiSockets
       /\ sessions[c].telnyxWs \in MediaSockets \cup {NullWs}
       /\ sessions[c].sessionReady \in BOOLEAN
       /\ sessions[c].pendingMediaStart \in BOOLEAN
       /\ sessions[c].hasActiveResponse \in BOOLEAN
       /\ Len(sessions[c].audioQueue) <= MaxDeltas
  /\ DOMAIN wsCallMap \subseteq MediaSockets
  /\ {sessOrder[i] : i \in DOMAIN sessOrder} = DOMAIN sessions
  /\ Len(sessOrder) = Cardinality(DOMAIN sessions)

\* C1: when call.answered is handled for a call whose session exists and is
\* not ready, no start action is issued and the pending start is recorded with
\* its control handle; the session.updated handler that finds the pending start
\* issues exactly one start action for that call and clears it; and while the
\* pending start is recorded no other handler issues a start for the call.
C1_PendingStartAtReadiness ==
  [][\A c \in CallIds :
       /\ (handleCallAnswered(c) /\ Has(c) /\ ~sessions[c].sessionReady)
            => /\ Starts(out') = 0
               /\ sessions'[c].pendingMediaStart
               /\ sessions'[c].pendingCallControlId = c
               /\ ~sessions'[c].sessionReady
       /\ \A s \in AiSockets :
            (aiOnSessionUpdated(s) /\ aiCall[s] = c /\ Has(c)
               /\ sessions[c].pendingMediaStart)
            => /\ Starts(out') = 1
               /\ StartsFor(out', c) = 1
               /\ sessions'[c].sessionReady
               /\ ~sessions'[c].pendingMediaStart
               /\ sessions'[c].pendingCallControlId = NullCall
       /\ (Has(c) /\ sessions[c].pendingMediaStart /\ StartsFor(out', c) > 0)
            => \E s \in AiSockets : aiCall[s] = c /\ aiOnSessionUpdated(s)
    ]_vars

\* the session.updated handler has just consumed a pending start
C1_Witness ==
  \E c \in CallIds, s \in AiSockets :
    /\ Has(c) /\ sessions[c].sessionReady /\ ~sessions[c].pendingMediaStart
    /\ hist[c].answered
    /\ out = <<Output("ai.send", c, s, "conversation.item.create", 0),
               Output("streaming_start", c, NullWs, "call_id", 0)>>

\* C2: the session.updated handler issues no start action when there is no
\* session or no pending start; call.answered handled for a ready session
\* issues exactly one start action for that call and records no pending start,
\* so that no later session.updated issues a second one; a ready session never
\* has a pending start recorded.
C2_ImmediateStartAtAnswered ==
  [][\A c \in CallIds :
       /\ \A s \in AiSockets :
            (aiOnSessionUpdated(s) /\ aiCall[s] = c
               /\ (~Has(c) \/ ~sessions[c].pendingMediaStart))
            => Starts(out') = 0
       /\ (handleCallAnswered(c) /\ Has(c) /\ sessions[c].sessionReady)
            => /\ Starts(out') = 1
               /\ StartsFor(out', c) = 1
               /\ ~sessions'[c].pendingMediaStart
               /\ sessions'[c].pendingCallControlId = NullCall
       /\ (Has(c) /\ sessions[c].sessionReady /\ StartsFor(out', c) > 0)
            => handleCallAnswered(c)
    ]_vars

\* call.answered has just started the stream of a session that was ready
C2_Witness ==
  \E c \in CallIds :
    /\ Has(c) /\ sessions[c].sessionReady /\ ~sessions[c].pendingMediaStart
    /\ hist[c].answered
    /\ out = <<Output("streaming_start", c, NullWs, "call_id", 0)>>

\* C3: once call.answered and session.updated have both been handled for a
\* call (call.answered handled, the registered session made ready by
\* session.updated, no hangup handled), the media-stream start has been issued,
\* in whatever order the handlers ran.
C3_SecondSignalStarts ==
  \A c \in CallIds :
    (hist[c].answered /\ hist[c].hangups = 0 /\ Has(c)
       /\ sessions[c].sessionReady)
      => hist[c].started

\* C4: a response.create is sent on an AI socket only for the session that
\* owns the socket, only while that session's hasActiveResponse is false and no
\* earlier response.create on the socket is still waiting for a response.done,
\* at most one per handler run, and the flag is true afterwards; a
\* conversation.item.created handled while the flag is true sends nothing and
\* changes nothing.
C4_NoCreateWhileActive ==
  [][/\ \A s \in AiSockets :
          SentOn(out', s, "response.create") > 0
            => \E c \in CallIds :
                 /\ Has(c) /\ sessions[c].openaiWs = s
                 /\ ~sessions[c].hasActiveResponse
                 /\ ~respOpen[s]
                 /\ SentOn(out', s, "response.create") = 1
                 /\ c \in DOMAIN sessions' /\ sessions'[c].hasActiveResponse
     /\ \A s \in AiSockets, role \in ItemRoles :
          (aiOnConversationItemCreated(s, role) /\ Has(aiCall[s])
             /\ sessions[aiCall[s]].hasActiveResponse)
            => out' = <<>> /\ UNCHANGED <<progVars, respOpen>>
    ]_vars

\* a response.create has just been sent and the flag is set
C4_Witness ==
  \E c \in CallIds :
    /\ Has(c) /\ sessions[c].hasActiveResponse
    /\ respOpen[sessions[c].openaiWs]
    /\ out = <<Output("ai.send", c, sessions[c].openaiWs, "response.create", 0)>>

C6_HangupClosesBothTransports ==
  [][\A c \in CallIds :
       (handleCallHangup(c) /\ Has(c))
         => /\ c \notin DOMAIN sessions'
            /\ aiState'[sessions[c].openaiWs] \in {"closing", "closed"}
            /\ sessions[c].telnyxWs # NullWs
                 => tState'[sessions[c].telnyxWs] \in {"closing", "closed"}
    ]_vars

\* C7: when a hangup has been handled for a call since its last call.initiated
\* arrived and no call.initiated handler is still in flight, the registry has
\* no entry for the call.
C7_NoEntryAfterHangup ==
  \A c \in CallIds : (hist[c].hangups > 0 /\ inFlight[c] = 0) => ~Has(c)

\* C8: the close callback of the AI socket of a registered session removes the
\* entry and closes the attached telephony media socket.
C8_AiCloseTearsDown ==
  [][\A s \in AiSockets :
       (aiOnClose(s) /\ Has(aiCall[s]) /\ sessions[aiCall[s]].openaiWs = s)
         => /\ aiCall[s] \notin DOMAIN sessions'
            /\ sessions[aiCall[s]].telnyxWs # NullWs
                 => tState'[sessions[aiCall[s]].telnyxWs] \in {"closing", "closed"}
    ]_vars

\* C9: the frames written to a media socket are in the order in which their
\* deltas were handled, none twice.
C9_FramesInOrder ==
  \A m \in MediaSockets :
    \A i, j \in DOMAIN telnyxOut[m] :
      i < j => telnyxOut[m][i].id < telnyxOut[m][j].id

Queued(c) == Has(c) /\ sessions[c].audioQueue # <<>>

Connected(c) ==
  \E m \in DOMAIN wsCallMap :
    /\ tState[m] = "open"
    /\ wsCallMap[m].callId = c \/ (Has(c) /\ sessions[c].telnyxWs = m)

\* C10: while a session holds queued frames and an open media socket is
\* connected for it, eventually the queue is written out (or the session is
\* removed, or the socket goes away), whether or not another delta arrives.
C10_QueuedFramesEventuallyWritten ==
  \A c \in CallIds :
    (Queued(c) /\ Connected(c)) ~> (~Queued(c) \/ ~Connected(c))

\* C11: the outbound audio queue of a session is bounded whatever the number
\* of AI audio deltas that arrive while no media socket is attached: when
\* MaxDeltas deltas can arrive, the queue still holds fewer than MaxDeltas
\* frames.
C11_QueueBounded ==
  \A c \in DOMAIN sessions : Len(sessions[c].audioQueue) < MaxDeltas

Appends(o) ==
  {i \in DOMAIN o : o[i].act = "ai.send" /\ o[i].msg = "input_audio_buffer.append"}

\* C12: an input_audio_buffer.append is sent only by the handler of a
\* non-empty telephony frame, one per frame, for a registered session whose
\* sessionReady is true and on that session's AI socket; a frame handled while
\* the session it is bound to is absent or not ready sends nothing to the AI
\* provider, and no handler other than that of a frame ever sends an append, so
\* a dropped frame is not forwarded later.
C12_NoAppendBeforeReady ==
  [][/\ \A i \in Appends(out') :
          LET c == out'[i].call IN
          /\ Has(c) /\ sessions[c].sessionReady
          /\ c \in DOMAIN sessions' /\ sessions'[c].sessionReady
          /\ out'[i].sock = sessions[c].openaiWs
          /\ Cardinality(Appends(out')) = 1
          /\ \E m \in MediaSockets, len \in FrameLens \ {0} :
               telnyxOnMessage(m, len)
     /\ \A m \in MediaSockets, len \in FrameLens :
          LET a == IF m \in DOMAIN wsCallMap THEN bindTelnyxWs(m)[1] ELSE NullCall
          IN (telnyxOnMessage(m, len)
                /\ (a = NullCall \/ ~Has(a) \/ ~sessions[a].sessionReady))
               => Appends(out') = {}
    ]_vars

\* a frame bound a media socket to a session that is not ready: the frame was
\* dropped and nothing was sent
C12_Witness ==
  \E c \in CallIds :
    /\ Has(c) /\ ~sessions[c].sessionReady
    /\ sessions[c].telnyxWs # NullWs /\ tState[sessions[c].telnyxWs] = "open"
    /\ out = <<>>

\* C13: when the media socket attached to a call's session has closed and no
\* hangup has been handled for the call, the session is eventually removed
\* from the registry (implicit hangup), without any hangup webhook.
C13_MediaCloseTearsDown ==
  \A c \in CallIds :
    (hist[c].detached /\ Has(c) /\ hist[c].hangups = 0) ~> ~Has(c)

\* C14: the close handler of a media socket removes the socket from wsCallMap
\* and sets telnyxWs of the session of the socket's call to absent; the keys
\* of the registry and their order, every other field of that session
\* (openaiWs, sessionReady, the pending-start fields, hasActiveResponse,
\* audioQueue), every other session and every AI socket are unchanged, and
\* nothing is sent.
C14_MediaCloseOnlyDetaches ==
  [][\A m \in MediaSockets :
       telnyxOnClose(m)
         => LET callId == wsCallMap[m].callId IN
            /\ m \notin DOMAIN wsCallMap'
            /\ \A k \in DOMAIN wsCallMap' : wsCallMap'[k] = wsCallMap[k]
            /\ DOMAIN sessions' = DOMAIN sessions
            /\ sessOrder' = sessOrder
            /\ \A c \in DOMAIN sessions :
                 sessions'[c] = IF c = callId
                                  THEN [sessions[c] EXCEPT !.telnyxWs = NullWs]
                                  ELSE sessions[c]
            /\ UNCHANGED <<inFlight, aiState, aiCall>>
            /\ out' = <<>>
    ]_vars

\* the media socket attached to a session has closed: the session is still
\* registered, with its AI socket, and has no media socket
C14_Witness ==
  \E c \in CallIds, m \in MediaSockets :
    /\ hist[c].detached /\ Has(c)
    /\ sessions[c].telnyxWs = NullWs
    /\ sessions[c].sessionReady
    /\ aiState[sessions[c].openaiWs] = "open"
    /\ tState[m] = "closed" /\ m \notin DOMAIN wsCallMap

\* C15: when call.answered has been handled for a call whose session is not
\* ready (the start is pending), the media-stream start is eventually issued
\* for the call even if the session never becomes ready; the obligation ends
\* only if the session becomes ready or is removed.
C15_StartAfterBoundedWait ==
  \A c \in CallIds :
    (hist[c].answered /\ Has(c) /\ sessions[c].pendingMediaStart)
      ~> (StartsFor(out, c) > 0 \/ ~Has(c) \/ sessions[c].sessionReady)

\* the lifecycle phase read from the registry: 0 before any session of the
\* call, 1 entry created, 2 pending start recorded, 3 stream start issued,
\* 4 entry removed
Phase(c) ==
  IF ~Has(c) THEN (IF \E s \in AiSockets : aiCall[s] = c THEN 4 ELSE 0)
  ELSE IF hist[c].started THEN 3
  ELSE IF sessions[c].pendingMediaStart THEN 2
  ELSE 1

\* C16: for each call the phase never decreases, sessionReady of its entry
\* never returns from true to false, and once a start was issued for the call
\* no pending start is recorded again.
C16_PhaseOnlyForward ==
  [][\A c \in CallIds :
       /\ Phase(c)' >= Phase(c)
       /\ (Has(c) /\ sessions[c].sessionReady /\ c \in DOMAIN sessions')
            => sessions'[c].sessionReady
       /\ (hist[c].started /\ c \in DOMAIN sessions')
            => ~sessions'[c].pendingMediaStart
    ]_vars

\* C17: two distinct registry entries never reference the same AI socket, and
\* never reference the same telephony media socket.
C17_NoSharedSocket ==
  \A c \in DOMAIN sessions, d \in DOMAIN sessions :
    c # d => /\ sessions[c].openaiWs # sessions[d].openaiWs
             /\ sessions[c].telnyxWs = NullWs
                  \/ sessions[c].telnyxWs # sessions[d].telnyxWs

\* two calls are registered, each with its own AI socket, and a media socket
\* that connected without call_id is attached to one of them
C17_Witness ==
  \E c \in CallIds, d \in CallIds, m \in MediaSockets :
    /\ c # d /\ Has(c) /\ Has(d)
    /\ sessions[c].telnyxWs = m /\ sessions[d].telnyxWs = NullWs
    /\ wsCallMap[m].callId = c
    /\ aiCall[sessions[c].openaiWs] = c /\ aiCall[sessions[d].openaiWs] = d

\* C18: every request the webhook route has handled was answered with a 200
\* response, whatever its body and whatever became of its handler.
C18_WebhookAlwaysAcked == res \in {"idle", "200"}

\* a step that creates no entry, changes no session, closes or opens no AI
\* socket and sends or issues nothing
NoSessionEffect ==
  /\ sessions' = sessions /\ sessOrder' = sessOrder
  /\ UNCHANGED <<inFlight, aiState, aiCall, telnyxOut, respOpen>>
  /\ out' = <<>>

\* C19: for a call identifier that has no registry entry, call.answered,
\* call.hangup, an AI audio delta, response.done and session.updated of a
\* socket of that call, and an inbound frame and the close of a media socket
\* of that call, create no entry, change no session and send nothing.
C19_AbsentSessionNoOp ==
  [][\A c \in CallIds :
       ~Has(c) =>
         /\ (handleCallAnswered(c) \/ handleCallHangup(c)) => NoSessionEffect
         /\ \A s \in AiSockets :
              (aiCall[s] = c
                 /\ \/ \E len \in DeltaLens : aiOnAudioDelta(s, len)
                    \/ aiOnResponseDone(s)
                    \/ aiOnSessionUpdated(s))
                => NoSessionEffect
         /\ \A m \in DOMAIN wsCallMap :
              (wsCallMap[m].callId = c
                 /\ \/ \E len \in FrameLens : telnyxOnMessage(m, len)
                    \/ telnyxOnClose(m))
                => NoSessionEffect
    ]_vars

\* call.answered was handled for a call that never had an entry while another
\* call is registered: nothing was sent and the other session is as it was
\* created
C19_Witness ==
  \E c \in CallIds, d \in CallIds :
    /\ c # d /\ ~Has(c) /\ Has(d)
    /\ hist[c].answered /\ ~hist[c].started
    /\ inFlight[c] = 0 /\ \A s \in AiSockets : aiCall[s] # c
    /\ sessions[d] = NewSession(sessions[d].openaiWs, d)
    /\ out = <<>>

\* C20: the handler of an error event of the AI provider or of an error of the
\* AI socket leaves the registry, every field of every session and every
\* socket as they are and sends nothing; an entry leaves the registry only in
\* a hangup or in the close callback of an AI socket of its call.
C20_AiErrorNonFatal ==
  [][/\ \A s \in AiSockets :
          aiOnError(s)
            => /\ UNCHANGED <<sessions, sessOrder, inFlight, aiState, aiCall,
                              tState, wsCallMap, respOpen>>
               /\ out' = <<>>
     /\ \A c \in DOMAIN sessions :
          c \notin DOMAIN sessions'
            => \/ handleCallHangup(c)
               \/ \E s \in AiSockets : aiCall[s] = c /\ aiOnClose(s)
    ]_vars

\* an error was raised on the connecting AI socket of a session: the handler
\* run changed nothing, the session is registered and its socket still
\* connecting
C20_Witness ==
  \E c \in CallIds :
    /\ Has(c) /\ aiState[sessions[c].openaiWs] = "connecting"
    /\ ~hist[c].answered /\ hist[c].hangups = 0 /\ inFlight[c] = 0
    /\ tick = 1 /\ out = <<>>

Sends(o) == {i \in DOMAIN o : o[i].act \in {"ai.send", "ai.close", "telnyx.send"}}

\* C21: the failure of a stream-start request is only logged: it leaves the
\* registry, every session (sessionReady included) and every socket as they
\* are and issues no start; whenever a start is issued for a call, its entry
\* is registered and its pending-start fields are cleared afterwards, and the
\* start is issued either by the call.answered handler or by the
\* session.updated handler consuming a pending start; and a pending start is
\* recorded only by the call.answered handler, so that without a new webhook
\* no start is issued again.
C21_StartFailureOnlyLogged ==
  [][\A c \in CallIds :
       /\ startMediaStreamFailed(c)
            => /\ UNCHANGED <<sessions, sessOrder, inFlight, aiState, aiCall,
                              tState, wsCallMap>>
               /\ Starts(out') = 0 /\ Sends(out') = {}
       /\ StartsFor(out', c) > 0
            => /\ StartsFor(out', c) = 1
               /\ c \in DOMAIN sessions'
               /\ ~sessions'[c].pendingMediaStart
               /\ sessions'[c].pendingCallControlId = NullCall
               /\ \/ handleCallAnswered(c)
                  \/ /\ Has(c) /\ sessions[c].pendingMediaStart
                     /\ \E s \in AiSockets : aiCall[s] = c /\ aiOnSessionUpdated(s)
       /\ (/\ c \in DOMAIN sessions' /\ sessions'[c].pendingMediaStart
           /\ ~(Has(c) /\ sessions[c].pendingMediaStart))
            => handleCallAnswered(c)
    ]_vars

\* the start request of a ready session has just failed: the session is
\* registered, ready, its AI socket open and no pending start is recorded
C21_Witness ==
  \E c \in CallIds :
    /\ out = <<Output("log", c, NullWs, "streaming_start failed", 0)>>
    /\ Has(c) /\ sessions[c].sessionReady
    /\ aiState[sessions[c].openaiWs] = "open"
    /\ ~sessions[c].pendingMediaStart
    /\ sessions[c].pendingCallControlId = NullCall

\* C22: when the answer action of a call.initiated fails, the session of the
\* call is in the registry afterwards, its AI socket has been opened, and no
\* answer action is issued again.
C22_AnswerFailureKeepsSession ==
  [][\A c \in CallIds :
       answerCallFailed(c)
         => /\ c \in DOMAIN sessions'
            /\ aiState'[sessions'[c].openaiWs] \in {"connecting", "open"}
            /\ \A i \in DOMAIN out' : out'[i].act # "answer"
    ]_vars

StartCalls(o) == {o[i].call : i \in {j \in DOMAIN o : o[j].act = "streaming_start"}}

\* C23: the start action issued by call.answered for a ready session, and the
\* one issued by session.updated for a pending start, carry as call_id the
\* registry key of the session the handler found; every call_id a start
\* carries is the key of a registered session; and a frame of a media socket
\* that connected with a call_id attaches the socket to the session under
\* that key when it has none, and changes no other session.
C23_StartCarriesRegistryKey ==
  [][/\ \A c \in CallIds :
          (handleCallAnswered(c) /\ Has(c) /\ sessions[c].sessionReady)
            => StartCalls(out') = {c}
     /\ \A s \in AiSockets :
          (aiOnSessionUpdated(s) /\ Has(aiCall[s])
             /\ sessions[aiCall[s]].pendingMediaStart)
            => StartCalls(out') = {aiCall[s]}
     /\ StartCalls(out') \subseteq DOMAIN sessions \cap DOMAIN sessions'
     /\ \A m \in DOMAIN wsCallMap, len \in FrameLens \ {0} :
          (telnyxOnMessage(m, len) /\ wsCallMap[m].callId # NullCall)
            => LET c == wsCallMap[m].callId IN
               /\ \A d \in DOMAIN sessions \ {c} : sessions'[d] = sessions[d]
               /\ (Has(c) /\ sessions[c].telnyxWs = NullWs)
                    => sessions'[c].telnyxWs = m
    ]_vars

\* a start was issued for a call, and the media socket that connected with
\* the call's identifier is attached to the call's session while another call
\* is registered without a media socket
C23_Witness ==
  \E c \in CallIds, d \in CallIds, m \in MediaSockets :
    /\ c # d /\ Has(c) /\ Has(d)
    /\ hist[c].started
    /\ m \in DOMAIN wsCallMap /\ wsCallMap[m].callId = c
    /\ sessions[c].telnyxWs = m /\ sessions[d].telnyxWs = NullWs


\* ------------------------------------------------------------------ C24
\* the complete samples of a buffer: the 16-bit values at the even offsets
Samples(buf) == [k \in 0..(Len(buf) \div 2 - 1) |-> readInt16LE(buf, 2 * k)]

\* a buffer of complete samples only: no odd last byte
Complete(buf) == Len(buf) % 2 = 0

\* C24: for every input buffer of N complete PCM16 samples (N >= 0),
\* resample8kHzTo24kHz followed by resample24kHzTo8kHz returns, without
\* failing, a buffer of exactly N samples.
C24_RoundTripLength ==
  (Complete(pcmIn) /\ pcmOp \in {"8to24", "8to24to8"})
    => /\ ~pcmOut.threw
       /\ pcmOp = "8to24to8" => Len(pcmOut.bytes) = Len(pcmIn)

C24_Witness ==
  /\ pcmOp = "8to24to8"
  /\ Complete(pcmIn)
  /\ Len(pcmIn) >= 4
  /\ Len(pcmOut.bytes) = Len(pcmIn)


\* ------------------------------------------------------------------ C25
\* C25: both resamplers return an empty buffer, and never fail, for every
\* input of fewer than 2 bytes; the downsampler also returns an empty buffer,
\* without reading outside its input, for inputs of 1 or 2 complete samples.
C25_ShortInputEmptyOutput ==
  /\ (Len(pcmIn) < 2 /\ pcmOp \in {"24to8", "8to24"})
       => (~pcmOut.threw /\ pcmOut.bytes = <<>>)
  /\ (Len(pcmIn) \div 2 \in {1, 2} /\ pcmOp = "24to8")
       => (~pcmOut.threw /\ pcmOut.bytes = <<>>)

C25_Witness ==
  /\ pcmOp = "24to8"
  /\ Len(pcmIn) \div 2 = 2
  /\ pcmOut.bytes = <<>>
  /\ ~pcmOut.threw


\* ------------------------------------------------------------------ C26
Int16(v) == -32768 <= v /\ v <= 32767

\* r is the nearest integer to thirds / 3
NearestToThird(r, thirds) ==
  LET d == 3 * r - thirds
  IN  -3 <= 2 * d /\ 2 * d <= 3

\* b lies between a and c, in their order
Between(a, b, c) == (a <= b /\ b <= c) \/ (c <= b /\ b <= a)

\* C26: for every input of n >= 1 complete samples, resample8kHzTo24kHz
\* yields 3n samples; output p is the nearest integer to
\* in[k] + (in[k+1] - in[k]) * (p mod 3) / 3 with k = floor(p/3) when
\* k < n-1, and in[n-1] when k = n-1.  Hence output[3k] = in[k], the two
\* samples between in[k] and in[k+1] lie monotonically between them, and
\* every output sample is within [-32768, 32767]; [S0, S1] gives 6 samples
\* with output[0] = S0 and output[3] = S1.
C26_LinearInterpolation ==
  (pcmOp = "8to24" /\ Len(pcmIn) >= 2) =>
    LET in == Samples(pcmIn)
        n == Len(pcmIn) \div 2
        output == Samples(pcmOut.bytes)
    IN  /\ ~pcmOut.threw
        /\ ~pcmOut.unwritten
        /\ Len(pcmOut.bytes) = 2 * (3 * n)
        /\ \A p \in 0..(3 * n - 1) :
             LET k == p \div 3
             IN  /\ Int16(output[p])
                 /\ IF k < n - 1
                    THEN NearestToThird(output[p],
                           3 * in[k] + (in[k + 1] - in[k]) * (p % 3))
                    ELSE output[p] = in[n - 1]
        /\ \A k \in 0..(n - 1) : output[3 * k] = in[k]
        /\ \A k \in 0..(n - 2) :
             /\ Between(in[k], output[3 * k + 1], output[3 * k + 2])
             /\ Between(output[3 * k + 1], output[3 * k + 2], in[k + 1])
        /\ n = 2 => /\ Len(pcmOut.bytes) = 2 * 6
                    /\ output[0] = in[0]
                    /\ output[3] = in[1]

C26_Witness ==
  /\ pcmOp = "8to24"
  /\ pcmIn = pcm16(<<2, 32767>>)
  /\ ~pcmOut.threw
  /\ Samples(pcmOut.bytes) =
       [p \in 0..5 |-> IF p = 0 THEN 2 ELSE IF p = 1 THEN 10924
                       ELSE IF p = 2 THEN 21845 ELSE 32767]


\* ------------------------------------------------------------------ C27
\* C27: for every input of n complete samples, resample24kHzTo8kHz yields
\* floor(n/3) samples with output i equal to input sample 3i, dropping a
\* trailing group of fewer than 3 samples and a trailing odd byte; a 480-byte
\* AI frame becomes a 160-byte telephony frame, and resample8kHzTo24kHz
\* turns a 160-byte telephony frame into a 480-byte AI frame.
C27_EveryThirdSample ==
  /\ pcmOp = "24to8" =>
       LET in == Samples(pcmIn)
           n == Len(pcmIn) \div 2
           output == Samples(pcmOut.bytes)
       IN  /\ ~pcmOut.threw
           /\ Len(pcmOut.bytes) = 2 * (n \div 3)
           /\ \A i \in 0..(n \div 3 - 1) : output[i] = in[3 * i]
           /\ Len(pcmIn) = 480 => Len(pcmOut.bytes) = 160
  /\ (pcmOp = "8to24" /\ Len(pcmIn) = 160) =>
       (~pcmOut.threw /\ Len(pcmOut.bytes) = 480)

C27_Witness ==
  /\ pcmOp = "24to8"
  /\ Len(pcmIn) = 480
  /\ Len(pcmOut.bytes) = 160
  /\ Samples(pcmOut.bytes)[1] = 4


\* ------------------------------------------------------------------ C28
\* C28: on call.initiated the session is created in the registry before the
\* answer action is issued: at every moment at which the answer action of a
\* call is in flight, the registry already holds the entry for that call.
C28_SessionBeforeAnswer ==
  \A c \in CallIds : inFlight[c] > 0 => Has(c)


\* ------------------------------------------------------------------ C29
\* C29: handling response.done sets hasActiveResponse to false, and the next
\* conversation.item.created with role user (handled while the flag is still
\* false) sends exactly one response.create and sets the flag to true; a
\* conversation.item.created whose role is not user sends no response.create
\* and leaves the flag unchanged.
C29_ResponseAfterDone ==
  [][\A s \in AiSockets :
       LET c == aiCall[s] IN
       /\ (aiOnResponseDone(s) /\ Has(c))
            => (c \in DOMAIN sessions' /\ ~sessions'[c].hasActiveResponse)
       /\ (aiOnConversationItemCreated(s, "user") /\ Has(c)
             /\ ~sessions[c].hasActiveResponse)
            => /\ Cardinality({i \in DOMAIN out' :
                                 out'[i].act = "ai.send"
                                   /\ out'[i].msg = "response.create"}) = 1
               /\ sessions'[c].hasActiveResponse
       /\ \A role \in ItemRoles \ {"user"} :
            (aiOnConversationItemCreated(s, role) /\ Has(c))
              => /\ out' = <<>>
                 /\ sessions'[c].hasActiveResponse = sessions[c].hasActiveResponse
    ]_vars


\* ------------------------------------------------------------------ C30
\* this step makes the registry entry of c reference media socket m
Binds(m, c) ==
  /\ c \in DOMAIN sessions' /\ sessions'[c].telnyxWs = m
  /\ ~(Has(c) /\ sessions[c].telnyxWs = m)

\* c is the first entry, in insertion order, without a media socket
FirstFree(c) ==
  \E i \in 1..Len(sessOrder) :
    /\ sessOrder[i] = c
    /\ sessions[c].telnyxWs = NullWs
    /\ \A j \in 1..(i - 1) : sessions[sessOrder[j]].telnyxWs # NullWs

C31_ShortFrameDropped ==
  [][\A m \in MediaSockets, len \in {l \in FrameLens : l < 2} :
       telnyxOnMessage(m, len)
         => /\ sessions' = sessions
            /\ \A i \in DOMAIN out' : out'[i].act # "ai.send"
    ]_vars


\* ------------------------------------------------------------------ C32
\* C32: in every state a handler leaves, no session has both sessionReady and
\* pendingMediaStart true; call.answered records a pending start only for a
\* session that is not ready, and session.updated, which sets sessionReady,
\* consumes a recorded pending start in the same step by issuing the start.
C32_ReadyExcludesPending ==
  [][/\ \A c \in DOMAIN sessions' :
          ~(sessions'[c].sessionReady /\ sessions'[c].pendingMediaStart)
     /\ \A c \in CallIds :
          (handleCallAnswered(c) /\ c \in DOMAIN sessions'
             /\ sessions'[c].pendingMediaStart)
            => (Has(c) /\ ~sessions[c].sessionReady)
     /\ \A s \in AiSockets :
          (aiOnSessionUpdated(s) /\ Has(aiCall[s])
             /\ sessions[aiCall[s]].pendingMediaStart)
            => /\ sessions'[aiCall[s]].sessionReady
               /\ ~sessions'[aiCall[s]].pendingMediaStart
               /\ StartCalls(out') = {aiCall[s]}
    ]_vars

\* a pending start recorded by call.answered has been consumed by the
\* session.updated that made the session ready
C32_Witness ==
  \E c \in CallIds :
    /\ Has(c) /\ sessions[c].sessionReady
    /\ ~sessions[c].pendingMediaStart
    /\ sessions[c].pendingCallControlId = NullCall
    /\ hist[c].answered /\ hist[c].started /\ hist[c].hangups = 0
    /\ StartCalls(out) = {c}


\* ------------------------------------------------------------------ C33
\* C33: the close callback of an AI socket removes the registry entry of its
\* call only if that entry still references this same socket; after the entry
\* has been replaced by a later call.initiated, the close of the earlier AI
\* socket leaves the newer entry in the registry.
C33_CloseRemovesOwnEntryOnly ==
  [][\A s \in AiSockets :
       aiOnClose(s)
         => IF Has(aiCall[s]) /\ sessions[aiCall[s]].openaiWs = s
              THEN aiCall[s] \notin DOMAIN sessions'
              ELSE sessions' = sessions /\ sessOrder' = sessOrder
    ]_vars

\* the earlier AI socket of a call outlived the replacement of the entry (its
\* session.updated made the newer record ready while the newer socket was
\* still connecting) and has closed since: the newer entry is still there
C33_Witness ==
  \E c \in CallIds, s \in AiSockets :
    /\ aiCall[s] = c /\ aiState[s] = "closed"
    /\ Has(c) /\ sessions[c].openaiWs # s
    /\ aiState[sessions[c].openaiWs] = "connecting"
    /\ sessions[c].sessionReady
    /\ out = <<>>


\* ------------------------------------------------------------------ C34
\* C34: messages received on an AI socket affect a session only while that
\* socket is the session's current AI socket: a session.updated, response.done
\* or audio delta arriving on a socket that the entry of its call no longer
\* references does not set the session's sessionReady, does not clear its
\* hasActiveResponse, and sends no audio to its media socket.
C34_ReplacedSocketIgnored ==
  [][\A s \in AiSockets :
       LET c == aiCall[s] IN
       (/\ Has(c) /\ sessions[c].openaiWs # s
        /\ \/ aiOnSessionUpdated(s)
           \/ aiOnResponseDone(s)
           \/ \E len \in DeltaLens : aiOnAudioDelta(s, len))
         => /\ c \in DOMAIN sessions'
            /\ sessions'[c].sessionReady = sessions[c].sessionReady
            /\ sessions'[c].hasActiveResponse = sessions[c].hasActiveResponse
            /\ \A i \in DOMAIN out' : out'[i].act # "telnyx.send"
    ]_vars


\* ------------------------------------------------------------------ C35
\* C35: no AI socket is orphaned: each AI socket that has been opened and
\* whose close has neither been requested nor occurred is the openaiWs of the
\* registry entry of its call.
C35_NoOrphanAiSocket ==
  \A s \in AiSockets :
    aiState[s] \in {"connecting", "open"}
      => (Has(aiCall[s]) /\ sessions[aiCall[s]].openaiWs = s)


\* ------------------------------------------------------------------ C36
\* C36: the close of a telephony media socket clears a session's telnyxWs
\* only if that socket is the one the session references: when another media
\* socket closes, a session that references an open socket still references
\* it afterwards.
C36_CloseClearsOwnAttachmentOnly ==
  [][\A m \in TwinSockets :
       telnyxOnClose(m)
         => \A c \in DOMAIN sessions :
              sessions[c].telnyxWs # m
                => (c \in DOMAIN sessions'
                      /\ sessions'[c].telnyxWs = sessions[c].telnyxWs)
    ]_vars


\* ------------------------------------------------------------------ C37
\* C37: for every input buffer of complete PCM16 samples, resample8kHzTo24kHz
\* followed by resample24kHzTo8kHz returns the original samples exactly, value
\* for value.
C37_RoundTripValues ==
  (Complete(pcmIn) /\ pcmOp = "8to24to8")
    => /\ ~pcmOut.threw
       /\ ~pcmOut.unwritten
       /\ Len(pcmOut.bytes) = Len(pcmIn)
       /\ \A j \in 1..Len(pcmIn) : pcmOut.bytes[j] = pcmIn[j]
       /\ Samples(pcmOut.bytes) = Samples(pcmIn)

C37_Witness ==
  /\ pcmOp = "8to24to8"
  /\ pcmIn = pcm16(<<2, 32767, -32768>>)
  /\ ~pcmOut.threw
  /\ Samples(pcmOut.bytes) = [k \in 0..2 |-> IF k = 0 THEN 2
                                             ELSE IF k = 1 THEN 32767 ELSE -32768]


\* ------------------------------------------------------------------ C38
\* C38: the turn guard does not stay set: when a response.create has been sent
\* for a session and the provider ends that response with a response.done or
\* with an error event, hasActiveResponse becomes false again.  No timer and
\* no other handler clears the flag, so it is false again only if the handler
\* of the event that ends the response leaves it false.
C38_TurnGuardReleased ==
  [][\A s \in AiSockets :
       LET c == aiCall[s] IN
       (/\ aiOnResponseDone(s) \/ aiOnError(s)
        /\ aiState[s] = "open"
        /\ Has(c) /\ sessions[c].openaiWs = s
        /\ sessions[c].hasActiveResponse /\ respOpen[s])
         => (c \in DOMAIN sessions' /\ ~sessions'[c].hasActiveResponse)
    ]_vars


\* ------------------------------------------------------------------ C39
\* this step leaves the session record of every call other than c as it was
OnlyCall(c) ==
  \A d \in (DOMAIN sessions \cup DOMAIN sessions') \ {c} :
    /\ d \in DOMAIN sessions /\ d \in DOMAIN sessions'
    /\ sessions'[d] = sessions[d]

\* C39: with two calls active under distinct identifiers, audio never crosses
\* calls: an inbound frame received on a media socket is forwarded only to the
\* AI socket of the session that socket is bound to; an AI audio delta is
\* written only to the media socket attached to the session of the call whose
\* AI socket produced it; the events of one call leave the other call's
\* session record unchanged.  The media sockets are bound by call_id or by
\* the fallback match.
C39_NoCrossCallAudio ==
  [][/\ \A m \in MediaSockets, len \in FrameLens :
          telnyxOnMessage(m, len)
            => LET c == wsCallMap'[m].callId IN
               /\ OnlyCall(c)
               /\ \A i \in DOMAIN out' :
                    /\ c # NullCall /\ c \in DOMAIN sessions'
                    /\ out'[i].call = c
                    /\ out'[i].act = "ai.send"
                         => /\ out'[i].sock = sessions'[c].openaiWs
                            /\ aiCall[out'[i].sock] = c
                    /\ out'[i].act = "telnyx.send" => out'[i].sock = m
               /\ \A r \in MediaSockets \ {m} : telnyxOut'[r] = telnyxOut[r]
     /\ \A s \in AiSockets, len \in DeltaLens :
          aiOnAudioDelta(s, len)
            => LET c == aiCall[s] IN
               /\ OnlyCall(c)
               /\ \A i \in DOMAIN out' :
                    /\ out'[i].act = "telnyx.send"
                    /\ out'[i].call = c
                    /\ Has(c) /\ out'[i].sock = sessions[c].telnyxWs
                    /\ wsCallMap[out'[i].sock].callId = c
               /\ \A r \in MediaSockets :
                    telnyxOut'[r] # telnyxOut[r]
                      => (Has(c) /\ r = sessions[c].telnyxWs)
     /\ \A c \in CallIds :
          (startOpenAIRealtimeSession(c) \/ handleCallAnswered(c)) => OnlyCall(c)
     /\ \A s \in AiSockets :
          (aiOnOpen(s) \/ aiOnSessionUpdated(s)) => OnlyCall(aiCall[s])
     /\ \A m \in MediaSockets :
          telnyxOnClose(m) => OnlyCall(wsCallMap[m].callId)
    ]_vars

\* both calls are registered and ready; an audio delta of one call has just
\* been written to the media socket bound to that call, and the record of the
\* other call holds no media socket and no queued audio
C39_Witness ==
  \E c \in CallIds, d \in CallIds, m \in MediaSockets :
    /\ c # d /\ Has(c) /\ Has(d)
    /\ sessions[c].sessionReady /\ sessions[d].sessionReady
    /\ sessions[c].telnyxWs = m /\ wsCallMap[m].callId = c
    /\ sessions[d].telnyxWs = NullWs /\ sessions[d].audioQueue = <<>>
    /\ Len(out) = 1 /\ out[1].act = "telnyx.send"
    /\ out[1].call = c /\ out[1].sock = m

====
